---- MODULE Spec2Model ----
(***************************************************************************)
(* Model of src/main.py: the message-processing cycle process_message of   *)
(* the food-menu analyzer (history store, completion stream, food-name     *)
(* extraction, photo enrichment, finalization, task-boundary error path).  *)
(*                                                                         *)
(* A text is a sequence of symbols.  Text that comes from outside the      *)
(* program (the user's message, the completion provider's deltas) is       *)
(* written character by character, so that the string operations of the    *)
(* source (strip, split, startswith, in) are computed as Python computes   *)
(* them.  A string literal of the source that the program only ever        *)
(* concatenates or compares as a whole is written as one symbol.           *)
(***************************************************************************)
EXTENDS Integers, Sequences, FiniteSets, TLC

(***************************************************************************)
(* Python string operations on texts                                       *)
(***************************************************************************)

\* str.strip() removes these from both ends; str.split() splits on them
Whitespace == {" ", "\n", "\t", "\r"}

Digits == {"0", "1", "2", "3", "4", "5", "6", "7", "8", "9"}

\* the upper-case letters and their lower-case forms (str.lower())
LowerOf ==
  [c \in {"A","B","C","D","E","F","G","H","I","J","K","L","M",
          "N","O","P","Q","R","S","T","U","V","W","X","Y","Z"} |->
     CASE c = "A" -> "a" [] c = "B" -> "b" [] c = "C" -> "c" [] c = "D" -> "d"
       [] c = "E" -> "e" [] c = "F" -> "f" [] c = "G" -> "g" [] c = "H" -> "h"
       [] c = "I" -> "i" [] c = "J" -> "j" [] c = "K" -> "k" [] c = "L" -> "l"
       [] c = "M" -> "m" [] c = "N" -> "n" [] c = "O" -> "o" [] c = "P" -> "p"
       [] c = "Q" -> "q" [] c = "R" -> "r" [] c = "S" -> "s" [] c = "T" -> "t"
       [] c = "U" -> "u" [] c = "V" -> "v" [] c = "W" -> "w" [] c = "X" -> "x"
       [] c = "Y" -> "y" [] c = "Z" -> "z"]

\* s.lower()
Lower(s) ==
  [i \in 1..Len(s) |-> IF s[i] \in DOMAIN LowerOf THEN LowerOf[s[i]] ELSE s[i]]

\* s[i:] for a 0-based Python index i
DropFirst(s, i) == SubSeq(s, i + 1, Len(s))

\* s.startswith(m)
StartsWith(s, m) == Len(m) <= Len(s) /\ SubSeq(s, 1, Len(m)) = m

\* sub in s
Contains(s, sub) ==
  \E i \in 0..(Len(s) - Len(sub)) : SubSeq(s, i + 1, i + Len(sub)) = sub

\* s.lstrip()
RECURSIVE LStrip(_)
LStrip(s) ==
  IF s # <<>> /\ Head(s) \in Whitespace THEN LStrip(Tail(s)) ELSE s

\* s.rstrip()
RECURSIVE RStrip(_)
RStrip(s) ==
  IF s # <<>> /\ s[Len(s)] \in Whitespace
    THEN RStrip(SubSeq(s, 1, Len(s) - 1))
    ELSE s

\* s.strip()
Strip(s) == RStrip(LStrip(s))

\* s.split(c): the pieces of s between the occurrences of the character c
RECURSIVE SplitOn(_, _)
SplitOn(s, c) ==
  IF \E i \in 1..Len(s) : s[i] = c
    THEN LET i == CHOOSE j \in 1..Len(s) :
                    s[j] = c /\ \A k \in 1..(j - 1) : s[k] # c
         IN  <<SubSeq(s, 1, i - 1)>> \o SplitOn(DropFirst(s, i), c)
    ELSE <<s>>

\* s.split(): the maximal runs of non-whitespace characters
RECURSIVE SplitWords(_)
SplitWords(s) ==
  LET t == LStrip(s)
  IN  IF t = <<>>
        THEN <<>>
        ELSE LET n == IF \E i \in 1..Len(t) : t[i] \in Whitespace
                        THEN (CHOOSE j \in 1..Len(t) :
                                t[j] \in Whitespace
                                /\ \A k \in 1..(j - 1) : t[k] \notin Whitespace) - 1
                        ELSE Len(t)
             IN  <<SubSeq(t, 1, n)>> \o SplitWords(DropFirst(t, n))

\* ' '.join(words)
RECURSIVE JoinSpace(_)
JoinSpace(words) ==
  IF words = <<>> THEN <<>>
  ELSE IF Len(words) = 1 THEN words[1]
  ELSE words[1] \o <<" ">> \o JoinSpace(Tail(words))

\* w.isdigit()
IsDigit(w) == w # <<>> /\ \A i \in 1..Len(w) : w[i] \in Digits

\* ''.join(texts)
RECURSIVE Concat(_)
Concat(texts) ==
  IF texts = <<>> THEN <<>> ELSE Head(texts) \o Concat(Tail(texts))

\* faulty variant of Take: the first n elements, last one first
TakeReversed(s, n) ==
  LET k == IF Len(s) < n THEN Len(s) ELSE n IN [i \in 1..k |-> s[k + 1 - i]]

\* s[:n]
Take(s, n) == SubSeq(s, 1, IF Len(s) < n THEN Len(s) ELSE n)

(***************************************************************************)
(* FoodMenuExtractor: lines 253-286 of process_message                     *)
(***************************************************************************)

\* the phrase of lines 247 and 383
NotAMenuPhrase ==
  <<"T", "h", "i", "s", " ", "i", "s", " ", "n", "o", "t", " ",
    "a", " ", "f", "o", "o", "d", " ", "m", "e", "n", "u">>

\* the list of line 265, in its order ("<bullet>" is the character U+2022)
ListMarkers ==
  << <<"-", " ">>, <<"<bullet>", " ">>, <<"*", " ">>,
     <<"1", ".", " ">>, <<"2", ".", " ">>, <<"3", ".", " ">>,
     <<"4", ".", " ">>, <<"5", ".", " ">>, <<"6", ".", " ">>,
     <<"7", ".", " ">>, <<"8", ".", " ">>, <<"9", ".", " ">>,
     <<"1", "0", ".", " ">> >>

\* the word list of line 276
StopWords ==
  { <<"t", "h", "e">>, <<"a">>, <<"a", "n">>, <<"a", "n", "d">>, <<"o", "r">>,
    <<"w", "i", "t", "h">>, <<"o", "f">>, <<"i", "n">>, <<"o", "n">>,
    <<"a", "t">>, <<"t", "o">>, <<"f", "o", "r">> }

\* the name list of line 280
RejectedNames ==
  { <<"m", "e", "n", "u">>, <<"f", "o", "o", "d">>, <<"d", "i", "s", "h">>,
    <<"i", "t", "e", "m">>, <<"p", "r", "i", "c", "e">>,
    <<"d", "e", "s", "c", "r", "i", "p", "t", "i", "o", "n">>,
    <<"s">>, <<"e", "s">> }

\* lines 265-269: the first marker of the list the line starts with is cut off
\* and the loop breaks
StripMarker(line) ==
  IF \E i \in 1..Len(ListMarkers) : StartsWith(line, ListMarkers[i])
    THEN LET i == CHOOSE j \in 1..Len(ListMarkers) :
                    /\ StartsWith(line, ListMarkers[j])
                    /\ \A k \in 1..(j - 1) : ~StartsWith(line, ListMarkers[k])
         IN  DropFirst(line, Len(ListMarkers[i]))
    ELSE line

\* faulty variant of CutSuffix: only the colon cuts
CutSuffixAtColon(name) == Strip(SplitOn(name, ":")[1])

\* line 272: split(':')[0].split('-')[0].split('(')[0].split('[')[0].strip()
CutSuffix(name) ==
  Strip(SplitOn(SplitOn(SplitOn(SplitOn(name, ":")[1], "-")[1], "(")[1], "[")[1])

\* the word test of line 276
KeepWord(word) == ~IsDigit(word) /\ Lower(word) \notin StopWords

\* line 276
FilterWords(name) == JoinSpace(SelectSeq(SplitWords(name), KeepWord))

\* line 280
IsValidFoodName(name) ==
  name # <<>> /\ Len(name) > 2 /\ Lower(name) \notin RejectedNames

\* the element of a one-element set: { F(x) : x \in {v} } holds F(v) with v
\* evaluated once, as a Python statement evaluates the value it assigns
Only(S) == CHOOSE r \in S : TRUE

\* lines 263-276: the food name of one stripped, non-empty line
CleanLine(line) ==
  Only({ FilterWords(cut) :
           cut \in { CutSuffix(food_name) :
                       food_name \in {StripMarker(line)} } })

\* lines 257-284 over the list of lines
RECURSIVE ExtractLines(_)
ExtractLines(lines) ==
  IF lines = <<>>
    THEN <<>>
    ELSE LET line == Strip(Head(lines))
             rest == ExtractLines(Tail(lines))
         IN  IF line # <<>> /\ IsValidFoodName(CleanLine(line))
               THEN <<CleanLine(line)>> \o rest
               ELSE rest

\* faulty variant of ExtractFoodNames: a name is kept only where it comes first
ExtractFoodNamesOnce(full_response) ==
  LET names == ExtractLines(SplitOn(Strip(full_response), "\n"))
      kept == SelectSeq([i \in 1..Len(names) |-> i],
                        LAMBDA i : \A j \in 1..(i - 1) : names[j] # names[i])
  IN  [k \in 1..Len(kept) |-> names[kept[k]]]

\* lines 253-286: food_names of the accumulated response
ExtractFoodNames(full_response) ==
  Only({ ExtractLines(lines) :
           lines \in { SplitOn(text, "\n") :
                       text \in {Strip(full_response)} } })

(***************************************************************************)
(* Literals of process_message.  Each is one symbol; the pictographs of    *)
(* the source are written <plate>, <pizza>, <camera>.                      *)
(***************************************************************************)

\* line 143
KeyErrorMsg == <<"OpenAI API key not found in variables">>

\* line 411
ErrorPrefix == <<"Error processing message: ">>

\* lines 158-172
FoodMenuSystemPrompt == <<"You are a specialized food menu analyzer. ...">>

\* line 191
ImageRequestText == <<"Please analyze this image and tell me if it's a food menu. ...">>

\* lines 306 and 385
ResultsHeader == <<"# <plate> Food Menu Analysis Results\n\n">>

\* line 366
ItemsHeader == <<"# <plate> Food Menu Items\n\n">>

\* faulty variant of SearchDoneText: the text put in place holds the phrase
SearchDoneTextDeclining ==
  <<"<plate> ">> \o NotAMenuPhrase \o <<" analysis completed.">>

\* line 361
SearchDoneText == <<"<plate> Food menu analysis completed with photo search results.">>

\* line 373
BasicDoneText == <<"<plate> Basic food menu list completed.">>

\* line 318
SearchQuery(food_name) == food_name \o <<" food photo">>

\* str(n) for n >= 0, as decimal digits
RECURSIVE Str(_)
Str(n) ==
  LET d == <<"0", "1", "2", "3", "4", "5", "6", "7", "8", "9">>[(n % 10) + 1]
  IN  IF n < 10 THEN <<d>> ELSE Str(n \div 10) \o <<d>>

\* line 334
FoundMessage(food_name, url) ==
  <<"## <pizza> ">> \o food_name \o <<"\n\n<camera> **[View Photo](">> \o url
    \o <<")**\n\n---\n\n">>

\* line 338
NoPhotoMessage(food_name) ==
  <<"## <pizza> ">> \o food_name \o <<"\n\n<camera> *No photo found*\n\n---\n\n">>

\* line 342
SearchFailedMessage(food_name, status_code) ==
  <<"## <pizza> ">> \o food_name \o <<"\n\n<camera> *Search failed (Status: ">>
    \o Str(status_code) \o <<")*\n\n---\n\n">>

\* line 347
TimeoutMessage(food_name) ==
  <<"## <pizza> ">> \o food_name \o <<"\n\n<camera> *Search timeout*\n\n---\n\n">>

\* lines 351 and 355
SearchErrorMessage(food_name) ==
  <<"## <pizza> ">> \o food_name \o <<"\n\n<camera> *Search error*\n\n---\n\n">>

\* faulty variant of BasicItemMessage: the plain message is given a photo line
BasicItemMessageWithPhotoLine(food_name) == NoPhotoMessage(food_name)

\* line 370
BasicItemMessage(food_name) ==
  <<"## <pizza> ">> \o food_name \o <<"\n\n---\n\n">>

\* lines 388-392: the entries of the given names
RECURSIVE SummaryItems(_)
SummaryItems(names) ==
  IF names = <<>>
    THEN <<>>
    ELSE <<"## <pizza> ">> \o Head(names) \o <<"\n\n">>
           \o <<"<camera> *Photo search completed*\n\n---\n\n">>
           \o SummaryItems(Tail(names))

\* line 309 and line 388: food_names[:10]
SearchLimit == 10

\* faulty variant of CompleteContent: the names are not cut to the first ten
CompleteContentOfAllNames(food_names) ==
  IF food_names # <<>>
    THEN ResultsHeader \o SummaryItems(food_names)
           \o <<"\n*All food items have been analyzed and photos searched via Serper API.*">>
    ELSE ResultsHeader \o <<"*No food names could be extracted from the menu.*">>

\* lines 385-396: complete_content
CompleteContent(food_names) ==
  IF food_names # <<>>
    THEN ResultsHeader \o SummaryItems(Take(food_names, SearchLimit))
           \o <<"\n*All food items have been analyzed and photos searched via Serper API.*">>
    ELSE ResultsHeader \o <<"*No food names could be extracted from the menu.*">>

(***************************************************************************)
(* HistoryStore: memory.ConversationManager, constructed at line 80        *)
(***************************************************************************)

\* faulty variant of MaxHistory: the store keeps one message too many
MaxHistoryOffByOne == 10 + 1

\* line 80: max_history
MaxHistory == 10

Threads == {"t1", "t2"}

\* the last n elements of s
LastN(s, n) == IF Len(s) <= n THEN s ELSE SubSeq(s, Len(s) - n + 1, Len(s))

\* conversation_manager.add_message(thread_id, role, content): the message is
\* appended to the thread and the oldest ones beyond max_history are dropped
AddMessage(h, thread_id, role, content) ==
  [h EXCEPT ![thread_id] =
     LastN(Append(@, [role |-> role, content |-> content]), MaxHistory)]

\* conversation_manager.get_history(thread_id): the window, oldest first
GetHistory(h, thread_id) == h[thread_id]

(***************************************************************************)
(* Inputs: the incoming turn (ChatMessage), the completion provider's      *)
(* stream and the image-search provider's answers                          *)
(***************************************************************************)

\* a completion stream has at most this many chunks
MaxDeltas == 2

\* at most this many calls of one cycle on the search provider and on the
\* delivery sink go otherwise than well: a search that ends otherwise than
\* with a photo found under imageUrl, a sink call that raises
MaxFaults == 1

\* at most this many cycles are run one after the other (SpecHist)
MaxRuns == 6

Procs == {1, 2}

ApiKey == <<"sk-key">>

SerperKeyValue == <<"serper-key">>

\* data.variables: a list of Variable(name, value)
VariableLists ==
  { <<>>,
    << [name |-> "OPENAI_API_KEY", value |-> ApiKey] >>,
    << [name |-> "OPENAI_API_KEY", value |-> ApiKey],
       [name |-> "SERPER_API_KEY", value |-> SerperKeyValue] >>,
    << [name |-> "SERPER_API_KEY", value |-> <<>>],
       [name |-> "OPENAI_API_KEY", value |-> ApiKey],
       [name |-> "SERPER_API_KEY", value |-> SerperKeyValue] >>,
    << [name |-> "SERPER_API_KEY", value |-> SerperKeyValue] >> }

\* the value of the first variable of the given name, <<>> (None) without one
FirstValue(variables, name) ==
  IF \E i \in 1..Len(variables) : variables[i].name = name
    THEN variables[CHOOSE i \in 1..Len(variables) :
                     /\ variables[i].name = name
                     /\ \A k \in 1..(i - 1) : variables[k].name # name].value
    ELSE <<>>

\* line 141: get_openai_api_key(data.variables)
GetOpenAIKey(variables) == FirstValue(variables, "OPENAI_API_KEY")

\* lines 294-298: serper_api_key
GetSerperKey(variables) == FirstValue(variables, "SERPER_API_KEY")

ImageUrl == <<"http://menu.example/photo.jpg">>

\* data.file_type and data.file_url; "absent" and <<>> stand for a missing,
\* None or empty attribute
Attachments ==
  { [file_type |-> "absent", file_url |-> <<>>],
    [file_type |-> "image", file_url |-> <<>>],
    [file_type |-> "image", file_url |-> ImageUrl],
    [file_type |-> "pdf", file_url |-> ImageUrl] }

UserMessages == { <<"h", "i">> }

SystemMessage == <<"You are a helpful assistant.">>

ProjectSystemMessage == <<"Project rules.">>

MakeTurn(thread_id, message, variables, attachment) ==
  [thread_id |-> thread_id, message |-> message, variables |-> variables,
   file_type |-> attachment.file_type, file_url |-> attachment.file_url,
   system_message |-> SystemMessage,
   project_system_message |-> ProjectSystemMessage]

\* the turns of Spec: its single cycle starts from the empty store, where
\* the threads are interchangeable
Turns ==
  { MakeTurn("t1", m, v, a) :
      m \in UserMessages, v \in VariableLists, a \in Attachments }

\* the turns of SpecHist: text turns of any thread, with the credential
HistTurns ==
  { MakeTurn(t, m, << [name |-> "OPENAI_API_KEY", value |-> ApiKey] >>,
             [file_type |-> "absent", file_url |-> <<>>]) :
      t \in Threads, m \in UserMessages }

\* the condition of lines 154, 227, 246 and 382
IsImageMessage(data) == data.file_type = "image" /\ data.file_url # <<>>

\* the texts carried by the chunks of the completion stream
ChunkHi == <<"H", "i">>

ChunkDeclineA == <<"T", "h", "i", "s", " ", "i", "s", " ", "n", "o", "t", " ">>

ChunkDeclineB == <<"a", " ", "f", "o", "o", "d", " ", "m", "e", "n", "u", ".">>

ChunkMixed ==
  <<"-", " ", "P", "h", "o", ":", " ", "s", "o", "u", "p", "\n",
    "*", " ", "M", "e", "n", "u", "\n">>

ChunkSix ==
  <<"P", "i", "e", "\n", "H", "a", "m", "\n", "E", "g", "g", "\n",
    "F", "i", "g", "\n", "Y", "a", "m", "\n", "C", "o", "d", "\n">>

\* a chunk of the stream: chunk.choices[0].delta.content (<<>> for None or "")
\* and chunk.usage ("none" for None)
StreamChunks ==
  { [content |-> c, usage |-> "none"] :
      c \in {ChunkHi, ChunkDeclineA, ChunkDeclineB, ChunkMixed, ChunkSix} }
  \cup { [content |-> <<>>, usage |-> "usage"] }

\* the completion streams of Spec: finite sequences of chunks
Streams == UNION { [1..n -> StreamChunks] : n \in 0..MaxDeltas }

\* the chunks of the streams of SpecLive: short texts, of which one gives a
\* food name and one declines the image
ChunkPie == <<"P", "i", "e", "\n">>

LiveChunks ==
  { [content |-> c, usage |-> "none"] :
      c \in {ChunkHi, ChunkPie, ChunkDeclineA \o ChunkDeclineB} }
  \cup { [content |-> <<>>, usage |-> "usage"] }

\* the completion streams of SpecLive: finite, of at most two chunks
LiveStreams == UNION { [1..n -> LiveChunks] : n \in 0..2 }

\* the completion streams of SpecHist
HistStreams == { << [content |-> <<"o", "k">>, usage |-> "usage"] >> }

\* what a line of a menu text begins with: nothing, a marker of line 265, or
\* two of them
MenuMarkers ==
  { <<>>,
    <<"-", " ">>,
    <<"<bullet>", " ">>,
    <<"1", "0", ".", " ">>,
    <<"1", ".", " ", "*", " ">>,
    <<"*", " ", "-", " ">> }

\* the names written on the lines
MenuBodies ==
  { <<"P", "h", "o">>,
    <<"E", "g", "g", " ", "P", "i", "e">>,
    <<"M", "e", "n", "u">>,
    <<"t", "h", "e", " ", "H", "a", "m">> }

\* what follows the name on its line
MenuSuffixes ==
  { <<>>,
    <<" ", "(", "b", ")", ":", " ", "c">>,
    <<":", " ", "d", " ", "-", " ", "e">>,
    <<"-", "f", " ", "[", "g", "]">>,
    <<" ", "[", "h", "]", " ", "(", "i", ")">> }

\* the lines of the menu texts
MenuLines ==
  { m \o b \o s : m \in MenuMarkers, b \in MenuBodies, s \in MenuSuffixes }

\* the lines of the texts of several lines
RepeatedLines ==
  { <<"-", " ", "P", "h", "o">>,
    <<"E", "g", "g", " ", "P", "i", "e", ":", " ", "d", " ", "-", " ", "e">>,
    <<" ", " ", "*", " ", "M", "e", "n", "u">> }

\* the text of three lines of the extraction example
ExampleMenuText ==
  <<"1", ".", " ", "G", "r", "i", "l", "l", "e", "d", " ", "S", "a", "l", "m", "o", "n", "\n">>
    \o <<"-", " ", "C", "a", "e", "s", "a", "r", " ", "S", "a", "l", "a", "d", " ", "(", "w", "i", "t", "h", " ", "c", "r", "o", "u", "t", "o", "n", "s", ")", "\n">>
    \o <<"*", " ", "T", "o", "m", "a", "t", "o", " ", "S", "o", "u", "p", ":", " ", "r", "i", "c", "h", " ", "a", "n", "d", " ", "c", "r", "e", "a", "m", "y">>

\* the completion texts of SpecExtract: one line, or two or three lines of
\* which some may be the same, or the example
MenuTexts ==
  MenuLines
    \cup { a \o <<"\n">> \o b : a \in RepeatedLines, b \in RepeatedLines }
    \cup { a \o <<"\n">> \o b \o <<"\n">> \o c :
             a \in RepeatedLines, b \in RepeatedLines, c \in RepeatedLines }
    \cup { ExampleMenuText }

\* the completion streams of SpecExtract: the text comes in one chunk
ExtractStreams == { << [content |-> x, usage |-> "usage"] >> : x \in MenuTexts }

\* the turns of SpecExtract: image turns with the completion credential
ExtractTurns ==
  { d \in Turns : IsImageMessage(d) /\ GetOpenAIKey(d.variables) # <<>> }

Url1 == <<"http://img.example/1.jpg">>

Url2 == <<"http://img.example/1-thumb.jpg">>

Url3 == <<"http://site.example/1">>

\* what requests.post(...) of line 322 does: it returns a response with a
\* status code and a JSON body, or raises
Response(status_code, images) ==
  [kind |-> "response", status_code |-> status_code, images |-> images]

Image(imageUrl, thumbnailUrl, link) ==
  [imageUrl |-> imageUrl, thumbnailUrl |-> thumbnailUrl, link |-> link]

PlainFound == Response(200, << Image(Url1, Url2, Url3) >>)

SearchOutcomes ==
  { PlainFound,
    Response(200, << Image(<<>>, Url2, Url3) >>),
    Response(200, << Image(<<>>, <<>>, Url3) >>),
    Response(200, << Image(<<>>, <<>>, <<>>) >>),
    Response(200, <<>>),
    Response(201, << Image(Url1, Url2, Url3) >>),
    Response(500, <<>>),
    [kind |-> "timeout", status_code |-> 0, images |-> <<>>],
    [kind |-> "request_exception", status_code |-> 0, images |-> <<>>],
    [kind |-> "exception", status_code |-> 0, images |-> <<>>] }

\* the messages of the exceptions raised by the collaborators
SinkFailure == <<"delivery failed">>

ClientFailure == <<"client could not be created">>

PromptFailure == <<"prompt could not be formatted">>

ProviderFailure == <<"completion request failed">>

StreamFailure == <<"stream interrupted">>

NameErrorText == <<"name 'food_names' is not defined">>

(***************************************************************************)
(* State                                                                   *)
(***************************************************************************)

VARIABLES
  hist,      \* conversation_manager: thread id -> the window of the thread
  loc,       \* per cycle: the position in process_message and its locals
  sink,      \* per cycle: the calls made on lexia (stream_chunk,
             \* complete_response, send_error), in call order
  prov,      \* per cycle: the completion requests made, the stream the
             \* provider answers with and the chunks read from it so far
  searches,  \* per cycle: the requests.post calls made, in call order
  appended   \* thread id -> every add_message call made for it, in call order

vars == <<hist, loc, sink, prov, searches, appended>>

NoTurn == MakeTurn("t1", <<>>, <<>>, [file_type |-> "absent", file_url |-> <<>>])

\* the locals of a cycle that has not started
IdleLocals ==
  [pc |-> "idle", run |-> 0, data |-> NoTurn,
   thread_history |-> <<>>, messages |-> <<>>, system_prompt |-> <<>>,
   full_response |-> <<>>, usage_info |-> "none",
   food_defined |-> FALSE, food_names |-> <<>>, idx |-> 0,
   exc |-> <<>>, failed_at |-> "none", exit |-> "none",
   faults |-> 0]

NoProviderCalls ==
  [requests |-> <<>>, stream |-> <<>>, chunks |-> <<>>, raised |-> FALSE]

Init ==
  /\ hist = [t \in Threads |-> <<>>]
  /\ loc = [p \in Procs |-> IdleLocals]
  /\ sink = [p \in Procs |-> <<>>]
  /\ prov = [p \in Procs |-> NoProviderCalls]
  /\ searches = [p \in Procs |-> <<>>]
  /\ appended = [t \in Threads |-> <<>>]

\* a call on the delivery sink; ok = FALSE when the call raised
SinkCall(call, text, usage, ok) ==
  [call |-> call, text |-> text, usage |-> usage, ok |-> ok]

\* whether a sink call made by a cycle with these locals returns (TRUE) or
\* raises (FALSE)
SinkResults(l) == IF l.faults < MaxFaults THEN {TRUE, FALSE} ELSE {TRUE}

\* an exception with the given message leaves the try block: control goes to
\* the handler of line 410
Raised(l, message) ==
  [l EXCEPT !.pc = "except", !.exc = message, !.failed_at = l.pc]

\* the same for an exception raised by a sink call
SinkRaised(l) ==
  [Raised(l, SinkFailure) EXCEPT !.faults = l.faults + 1]

\* conversation_manager.add_message called by cycle p
Record(thread_id, role, content, p) ==
  [appended EXCEPT ![thread_id] =
     Append(@, [role |-> role, content |-> content,
                by |-> p, run |-> loc[p].run])]

(***************************************************************************)
(* process_message, step by step                                           *)
(***************************************************************************)

\* the endpoint hands a ChatMessage to process_message (line 90)
Start(p, turns) ==
  /\ loc[p].pc = "idle"
  /\ \E d \in turns :
       loc' = [loc EXCEPT ![p] = [@ EXCEPT !.pc = "l140", !.data = d,
                                             !.run = @ + 1]]
  /\ UNCHANGED <<hist, sink, prov, searches, appended>>

\* lines 139-149: the completion credential and the client
GetKey(p) ==
  LET l == loc[p] IN
  /\ l.pc = "l140"
  /\ IF GetOpenAIKey(l.data.variables) = <<>>
       THEN \E ok \in SinkResults(l) :
              /\ sink' = [sink EXCEPT ![p] =
                            Append(@, SinkCall("error", KeyErrorMsg, "none", ok))]
              /\ loc' = [loc EXCEPT ![p] =
                           IF ok THEN [l EXCEPT !.pc = "done", !.exit = "return146"]
                                 ELSE SinkRaised(l)]
       ELSE /\ \/ loc' = [loc EXCEPT ![p] = [l EXCEPT !.pc = "l150"]]
               \/ loc' = [loc EXCEPT ![p] = Raised(l, ClientFailure)]
            /\ UNCHANGED sink
  /\ UNCHANGED <<hist, prov, searches, appended>>

\* faulty variant of HistoryKey: every cycle uses the same thread
HistoryKeyShared(data) == "t1"

\* lines 150, 151 and 402: the thread id given to the conversation manager
HistoryKey(data) == data.thread_id

\* lines 150-151: the user message joins the history and the window is read
AddUser(p) ==
  LET l == loc[p]
      h == AddMessage(hist, HistoryKey(l.data), "user", l.data.message)
  IN  /\ l.pc = "l150"
      /\ hist' = h
      /\ appended' = Record(HistoryKey(l.data), "user", l.data.message, p)
      /\ loc' = [loc EXCEPT ![p] =
                   [l EXCEPT !.pc = "l154",
                             !.thread_history = GetHistory(h, HistoryKey(l.data))]]
      /\ UNCHANGED <<sink, prov, searches>>

\* one entry of the message list sent to the completion provider; the content
\* is plain text, or the composite of a text part and an image_url part
TextEntry(role, text) ==
  [role |-> role, content |-> [kind |-> "text", text |-> text, image_url |-> <<>>]]

CompositeEntry(role, text, url) ==
  [role |-> role, content |-> [kind |-> "composite", text |-> text, image_url |-> url]]

\* lines 181-185: role and content of every message of the window
HistoryEntries(thread_history) ==
  [i \in 1..Len(thread_history) |->
     TextEntry(thread_history[i].role, thread_history[i].content)]

\* lines 178-194: the message list of an image turn
ImagePrompt(thread_history, file_url) ==
  <<TextEntry("system", FoodMenuSystemPrompt)>>
    \o HistoryEntries(thread_history)
    \o <<CompositeEntry("user", ImageRequestText, file_url)>>

\* agent_utils.format_system_prompt (called at line 203): project text, when
\* present, follows the system text
FormatSystemPrompt(system_message, project_system_message) ==
  system_message \o project_system_message

\* agent_utils.format_messages_for_openai (called at line 204):
\* [system] + history (oldest first) + [new user message]
FormatMessagesForOpenAI(system_prompt, thread_history, message) ==
  <<TextEntry("system", system_prompt)>>
    \o HistoryEntries(thread_history)
    \o <<TextEntry("user", message)>>

\* lines 153-204: the message list and the system prompt; the formatting
\* helpers of the text branch may raise
BuildPrompt(p) ==
  LET l == loc[p]
      sp == FormatSystemPrompt(l.data.system_message,
                               l.data.project_system_message)
  IN  /\ l.pc = "l154"
      /\ IF IsImageMessage(l.data)
           THEN loc' = [loc EXCEPT ![p] =
                   [l EXCEPT !.pc = "l212",
                             !.system_prompt = FoodMenuSystemPrompt,
                             !.messages = ImagePrompt(l.thread_history,
                                                      l.data.file_url)]]
           ELSE \/ loc' = [loc EXCEPT ![p] =
                     [l EXCEPT !.pc = "l212",
                               !.system_prompt = sp,
                               !.messages = FormatMessagesForOpenAI(
                                              sp, l.thread_history, l.data.message)]]
                \/ loc' = [loc EXCEPT ![p] = Raised(l, PromptFailure)]
      /\ UNCHANGED <<hist, sink, prov, searches, appended>>

\* lines 212-227: the streaming completion request; the provider answers
\* with one of the given streams, or the request raises
CreateStream(p, streams) ==
  LET l == loc[p] IN
  /\ l.pc = "l212"
  /\ \/ /\ \E st \in streams :
               prov' = [prov EXCEPT ![p].requests = Append(@, l.messages),
                                    ![p].stream = st]
        /\ loc' = [loc EXCEPT ![p] =
                     [l EXCEPT !.pc = "l229", !.full_response = <<>>,
                               !.usage_info = "none"]]
     \/ /\ prov' = [prov EXCEPT ![p].requests = Append(@, l.messages)]
        /\ loc' = [loc EXCEPT ![p] = Raised(l, ProviderFailure)]
  /\ UNCHANGED <<hist, sink, searches, appended>>

\* faulty variant of Accumulate: the new text is put in front
AccumulateInFront(full_response, content) == content \o full_response

\* line 233: full_response += content
Accumulate(full_response, content) == full_response \o content

\* faulty variant of SuppressStreaming: nothing is suppressed
SuppressStreamingNever(data) == FALSE

\* line 226: is_image_message, under which line 235 sends no chunk
SuppressStreaming(data) == IsImageMessage(data)

\* lines 229-241, one iteration: the stream yields a chunk
StreamDelta(p) ==
  LET l == loc[p] IN
  /\ l.pc = "l229"
  /\ Len(prov[p].chunks) < Len(prov[p].stream)
  /\ LET c == prov[p].stream[Len(prov[p].chunks) + 1] IN
       LET acc == [l EXCEPT !.full_response = Accumulate(@, c.content)]
           use == [acc EXCEPT !.usage_info =
                                 IF c.usage # "none" THEN c.usage ELSE @]
       IN  /\ prov' = [prov EXCEPT ![p].chunks = Append(@, c)]
           /\ IF c.content # <<>> /\ ~SuppressStreaming(l.data)
                THEN \E ok \in SinkResults(l) :
                       /\ sink' = [sink EXCEPT ![p] =
                                     Append(@, SinkCall("chunk", c.content, "none", ok))]
                       /\ loc' = [loc EXCEPT ![p] =
                                    IF ok THEN use ELSE SinkRaised(acc)]
                ELSE /\ loc' = [loc EXCEPT ![p] = use]
                     /\ UNCHANGED sink
  /\ UNCHANGED <<hist, searches, appended>>

\* line 229: the stream is exhausted
StreamEnd(p) ==
  /\ loc[p].pc = "l229"
  /\ Len(prov[p].chunks) = Len(prov[p].stream)
  /\ loc' = [loc EXCEPT ![p] = [@ EXCEPT !.pc = "l246"]]
  /\ UNCHANGED <<hist, sink, prov, searches, appended>>

\* line 229: the stream raises instead of yielding the next chunk
StreamRaise(p) ==
  /\ loc[p].pc = "l229"
  /\ prov' = [prov EXCEPT ![p].raised = TRUE]
  /\ loc' = [loc EXCEPT ![p] = Raised(@, StreamFailure)]
  /\ UNCHANGED <<hist, sink, searches, appended>>

\* faulty variant of IsMenuResponse: the test is inverted
IsMenuResponseInverted(full_response) == Contains(full_response, NotAMenuPhrase)

\* lines 247 and 383: the response does not decline the image
IsMenuResponse(full_response) == ~Contains(full_response, NotAMenuPhrase)

\* lines 246-307 and 363-367: classification, extraction, credential lookup
\* and the header of the enrichment
Classify(p) ==
  LET l == loc[p]
      names == ExtractFoodNames(l.full_response)
      found == [l EXCEPT !.food_defined = TRUE, !.food_names = names]
      header == IF GetSerperKey(l.data.variables) # <<>>
                  THEN ResultsHeader ELSE ItemsHeader
      loop == IF GetSerperKey(l.data.variables) # <<>>
                THEN "search" ELSE "basic"
  IN  /\ l.pc = "l246"
      /\ IF IsImageMessage(l.data) /\ IsMenuResponse(l.full_response)
           THEN IF names # <<>>
                  THEN \E ok \in SinkResults(l) :
                         /\ sink' = [sink EXCEPT ![p] =
                                       Append(@, SinkCall("chunk", header, "none", ok))]
                         /\ loc' = [loc EXCEPT ![p] =
                                      IF ok THEN [found EXCEPT !.pc = loop, !.idx = 1]
                                            ELSE SinkRaised(found)]
                  ELSE /\ loc' = [loc EXCEPT ![p] = [found EXCEPT !.pc = "l382"]]
                       /\ UNCHANGED sink
           ELSE /\ loc' = [loc EXCEPT ![p] = [l EXCEPT !.pc = "l382"]]
                /\ UNCHANGED sink
      /\ UNCHANGED <<hist, prov, searches, appended>>

\* lines 327-330: the photo URL of a 200 response
PhotoUrl(images) ==
  IF images # <<>>
    THEN IF images[1].imageUrl # <<>> THEN images[1].imageUrl
         ELSE IF images[1].thumbnailUrl # <<>> THEN images[1].thumbnailUrl
         ELSE images[1].link
    ELSE <<>>

\* lines 324-344: the message streamed for a response
ResponseMessage(food_name, outcome) ==
  IF outcome.status_code = 200
    THEN IF PhotoUrl(outcome.images) # <<>>
           THEN FoundMessage(food_name, PhotoUrl(outcome.images))
           ELSE NoPhotoMessage(food_name)
    ELSE SearchFailedMessage(food_name, outcome.status_code)

\* faulty variant of HandlerMessage: the timeout has no handler of its own
HandlerMessageNoTimeout(food_name, outcome) == SearchErrorMessage(food_name)

\* lines 346-357: the message streamed by the handler of a raised search
HandlerMessage(food_name, outcome) ==
  IF outcome.kind = "timeout"
    THEN TimeoutMessage(food_name)
    ELSE SearchErrorMessage(food_name)

\* lines 309-357, one iteration: one search and the message of its result.
\* A stream_chunk of lines 335-343 that raises is caught at line 354, whose
\* handler streams the search-error message; a stream_chunk of a handler that
\* raises leaves the loop.
SearchItem(p) ==
  LET l == loc[p]
      names == Take(l.food_names, SearchLimit)
      name == names[l.idx]
  IN  /\ l.pc = "search"
      /\ l.idx <= Len(names)
      /\ \E o \in SearchOutcomes :
           LET m == IF o = PlainFound THEN l ELSE [l EXCEPT !.faults = @ + 1]
               n == [m EXCEPT !.idx = l.idx + 1]
               first == IF o.kind = "response" THEN ResponseMessage(name, o)
                                                ELSE HandlerMessage(name, o)
           IN  /\ o = PlainFound \/ l.faults < MaxFaults
               /\ searches' = [searches EXCEPT ![p] =
                     Append(@, [query |-> SearchQuery(name), num |-> 1,
                                outcome |-> o])]
               /\ \E ok \in SinkResults(m) :
                    IF ok
                      THEN /\ sink' = [sink EXCEPT ![p] =
                                  Append(@, SinkCall("chunk", first, "none", TRUE))]
                           /\ loc' = [loc EXCEPT ![p] = n]
                      ELSE IF o.kind = "response"
                        THEN \E ok2 \in SinkResults(SinkRaised(m)) :
                               /\ sink' = [sink EXCEPT ![p] =
                                    @ \o <<SinkCall("chunk", first, "none", FALSE),
                                           SinkCall("chunk", SearchErrorMessage(name),
                                                    "none", ok2)>>]
                               /\ loc' = [loc EXCEPT ![p] =
                                    IF ok2
                                      THEN [n EXCEPT !.faults = @ + 1]
                                      ELSE [SinkRaised(m) EXCEPT !.faults = @ + 1]]
                        ELSE /\ sink' = [sink EXCEPT ![p] =
                                    Append(@, SinkCall("chunk", first, "none", FALSE))]
                             /\ loc' = [loc EXCEPT ![p] = SinkRaised(m)]
      /\ UNCHANGED <<hist, prov, appended>>

\* lines 359-362: after the last search
SearchLoopEnd(p) ==
  LET l == loc[p] IN
  /\ l.pc = "search"
  /\ l.idx > Len(Take(l.food_names, SearchLimit))
  /\ loc' = [loc EXCEPT ![p] =
               [l EXCEPT !.pc = "l382", !.full_response = SearchDoneText]]
  /\ UNCHANGED <<hist, sink, prov, searches, appended>>

\* lines 369-371, one iteration: the plain message of one food name
BasicItem(p) ==
  LET l == loc[p] IN
  /\ l.pc = "basic"
  /\ l.idx <= Len(l.food_names)
  /\ \E ok \in SinkResults(l) :
       /\ sink' = [sink EXCEPT ![p] =
            Append(@, SinkCall("chunk", BasicItemMessage(l.food_names[l.idx]),
                               "none", ok))]
       /\ loc' = [loc EXCEPT ![p] =
            IF ok THEN [l EXCEPT !.idx = l.idx + 1] ELSE SinkRaised(l)]
  /\ UNCHANGED <<hist, prov, searches, appended>>

\* faulty variant of BasicLoopEnd: process_message returns after the list
BasicLoopEndReturns(p) ==
  LET l == loc[p] IN
  /\ l.pc = "basic"
  /\ l.idx > Len(l.food_names)
  /\ loc' = [loc EXCEPT ![p] =
               [l EXCEPT !.pc = "done", !.full_response = BasicDoneText]]
  /\ UNCHANGED <<hist, sink, prov, searches, appended>>

\* line 373: after the last plain message
BasicLoopEnd(p) ==
  LET l == loc[p] IN
  /\ l.pc = "basic"
  /\ l.idx > Len(l.food_names)
  /\ loc' = [loc EXCEPT ![p] =
               [l EXCEPT !.pc = "l382", !.full_response = BasicDoneText]]
  /\ UNCHANGED <<hist, sink, prov, searches, appended>>

\* faulty variant of FinalText: the assignment of line 398 is missing
FinalTextNotAssigned(data, full_response, food_names) == full_response

\* lines 382-398: full_response after the block, food_names being bound
FinalText(data, full_response, food_names) ==
  IF IsImageMessage(data) /\ IsMenuResponse(full_response)
    THEN CompleteContent(food_names)
    ELSE full_response

\* lines 382-399: the content stored and sent on completion.  food_names is
\* bound only by line 253; reading it unbound at line 387 raises NameError.
Finalize(p) ==
  LET l == loc[p] IN
  /\ l.pc = "l382"
  /\ loc' = [loc EXCEPT ![p] =
       IF IsImageMessage(l.data) /\ IsMenuResponse(l.full_response)
            /\ ~l.food_defined
         THEN Raised(l, NameErrorText)
         ELSE [l EXCEPT !.pc = "l402",
                        !.full_response =
                          FinalText(l.data, l.full_response, l.food_names)]]
  /\ UNCHANGED <<hist, sink, prov, searches, appended>>

\* line 402: the response joins the history
StoreAssistant(p) ==
  LET l == loc[p] IN
  /\ l.pc = "l402"
  /\ hist' = AddMessage(hist, HistoryKey(l.data), "assistant", l.full_response)
  /\ appended' = Record(HistoryKey(l.data), "assistant", l.full_response, p)
  /\ loc' = [loc EXCEPT ![p] = [l EXCEPT !.pc = "l406"]]
  /\ UNCHANGED <<sink, prov, searches>>

\* lines 404-408: the terminal complete call
Complete(p) ==
  LET l == loc[p] IN
  /\ l.pc = "l406"
  /\ \E ok \in SinkResults(l) :
       /\ sink' = [sink EXCEPT ![p] =
            Append(@, SinkCall("complete", l.full_response, l.usage_info, ok))]
       /\ loc' = [loc EXCEPT ![p] =
            IF ok THEN [l EXCEPT !.pc = "done", !.exit = "return408"]
                  ELSE SinkRaised(l)]
  /\ UNCHANGED <<hist, prov, searches, appended>>

\* faulty variant of ErrorMessage: str(e) is left out
ErrorMessageWithoutCause(exc) == ErrorPrefix

\* line 411: error_msg
ErrorMessage(exc) == ErrorPrefix \o exc

\* lines 410-413: the handler at the task boundary; an exception raised by
\* its own send_error leaves process_message
ReportError(p) ==
  LET l == loc[p] IN
  /\ l.pc = "except"
  /\ \E ok \in SinkResults(l) :
       /\ sink' = [sink EXCEPT ![p] =
            Append(@, SinkCall("error", ErrorMessage(l.exc), "none", ok))]
       /\ loc' = [loc EXCEPT ![p] =
            IF ok THEN [l EXCEPT !.pc = "done", !.exit = "return413"]
                  ELSE [l EXCEPT !.pc = "done", !.exit = "raise413",
                                 !.faults = @ + 1]]
  /\ UNCHANGED <<hist, prov, searches, appended>>

\* process_message has ended and the endpoint hands over the next message:
\* the locals and the records of the calls start afresh
Reset(p) ==
  /\ loc[p].pc = "done"
  /\ loc[p].run < MaxRuns
  /\ loc' = [loc EXCEPT ![p] = [IdleLocals EXCEPT !.run = loc[p].run]]
  /\ sink' = [sink EXCEPT ![p] = <<>>]
  /\ prov' = [prov EXCEPT ![p] = NoProviderCalls]
  /\ searches' = [searches EXCEPT ![p] = <<>>]
  /\ UNCHANGED <<hist, appended>>

(***************************************************************************)
(* Specifications                                                          *)
(***************************************************************************)

\* the cycles that run in Spec and SpecHist
MainProcs == {1}

\* one cycle on any turn, from the state after construction
Next ==
  \E p \in MainProcs :
    \/ Start(p, Turns)
    \/ GetKey(p)
    \/ AddUser(p)
    \/ BuildPrompt(p)
    \/ CreateStream(p, Streams)
    \/ StreamDelta(p)
    \/ StreamEnd(p)
    \/ StreamRaise(p)
    \/ Classify(p)
    \/ SearchItem(p)
    \/ SearchLoopEnd(p)
    \/ BasicItem(p)
    \/ BasicLoopEnd(p)
    \/ Finalize(p)
    \/ StoreAssistant(p)
    \/ Complete(p)
    \/ ReportError(p)

Spec == Init /\ [][Next]_vars

\* a step of a cycle that has started, the completion stream being finite
Continue(p) ==
  \/ GetKey(p)
  \/ AddUser(p)
  \/ BuildPrompt(p)
  \/ CreateStream(p, LiveStreams)
  \/ StreamDelta(p)
  \/ StreamEnd(p)
  \/ StreamRaise(p)
  \/ Classify(p)
  \/ SearchItem(p)
  \/ SearchLoopEnd(p)
  \/ BasicItem(p)
  \/ BasicLoopEnd(p)
  \/ Finalize(p)
  \/ StoreAssistant(p)
  \/ Complete(p)
  \/ ReportError(p)

NextLive == \E p \in MainProcs : Start(p, Turns) \/ Continue(p)

\* one cycle that is run on: process_message once called keeps executing, and
\* each call it makes returns or raises (the stream is finite, requests.post
\* has the timeout of line 322)
SpecLive ==
  Init /\ [][NextLive]_vars /\ \A p \in MainProcs : WF_vars(Continue(p))

\* cycles one after the other, on text turns answered by a stream of one
\* chunk: the store fills up and evicts
NextHist ==
  \E p \in MainProcs :
    \/ Start(p, HistTurns)
    \/ GetKey(p)
    \/ AddUser(p)
    \/ BuildPrompt(p)
    \/ CreateStream(p, HistStreams)
    \/ StreamDelta(p)
    \/ StreamEnd(p)
    \/ StreamRaise(p)
    \/ Classify(p)
    \/ Finalize(p)
    \/ StoreAssistant(p)
    \/ Complete(p)
    \/ ReportError(p)
    \/ Reset(p)

SpecHist == Init /\ [][NextHist]_vars

\* two cycles at once, each on a text turn of either thread, their steps
\* interleaved in any way
NextConc ==
  \E p \in Procs :
    \/ Start(p, HistTurns)
    \/ GetKey(p)
    \/ AddUser(p)
    \/ BuildPrompt(p)
    \/ CreateStream(p, HistStreams)
    \/ StreamDelta(p)
    \/ StreamEnd(p)
    \/ StreamRaise(p)
    \/ Classify(p)
    \/ Finalize(p)
    \/ StoreAssistant(p)
    \/ Complete(p)
    \/ ReportError(p)

SpecConc == Init /\ [][NextConc]_vars

\* one cycle on an image turn answered by a menu text
NextExtract ==
  \E p \in MainProcs :
    \/ Start(p, ExtractTurns)
    \/ GetKey(p)
    \/ AddUser(p)
    \/ BuildPrompt(p)
    \/ CreateStream(p, ExtractStreams)
    \/ StreamDelta(p)
    \/ StreamEnd(p)
    \/ StreamRaise(p)
    \/ Classify(p)
    \/ SearchItem(p)
    \/ SearchLoopEnd(p)
    \/ BasicItem(p)
    \/ BasicLoopEnd(p)
    \/ Finalize(p)
    \/ StoreAssistant(p)
    \/ Complete(p)
    \/ ReportError(p)

SpecExtract == Init /\ [][NextExtract]_vars

(***************************************************************************)
(* What a cycle did, read from the records of its calls                    *)
(***************************************************************************)

\* the texts of the given sink calls
Texts(calls) == [i \in 1..Len(calls) |-> calls[i].text]

\* the stream_chunk calls of cycle p, and those that returned
ChunkCalls(p) == SelectSeq(sink[p], LAMBDA e : e.call = "chunk")

DeliveredChunks(p) == SelectSeq(sink[p], LAMBDA e : e.call = "chunk" /\ e.ok)

\* the complete_response and send_error calls of cycle p
CompleteCalls(p) == SelectSeq(sink[p], LAMBDA e : e.call = "complete")

ErrorCalls(p) == SelectSeq(sink[p], LAMBDA e : e.call = "error")

\* the content of the chunks cycle p has read from its stream
DeltaTexts(p) == [i \in 1..Len(prov[p].chunks) |-> prov[p].chunks[i].content]

\* their concatenation: the raw accumulated completion text
RawText(p) == Concat(DeltaTexts(p))

\* the add_message calls of the current cycle of p for thread t
AppendedBy(p, t) ==
  SelectSeq(appended[t], LAMBDA m : m.by = p /\ m.run = loc[p].run)

\* the same, of one role
AppendedAs(p, t, role) == SelectSeq(AppendedBy(p, t), LAMBDA m : m.role = role)

\* cycle p has ended through the complete call of line 406
Completed(p) == loc[p].pc = "done" /\ loc[p].exit = "return408"

\* the stream_chunk calls of cycle p that are not a header, and those that
\* returned
ItemCalls(p) ==
  SelectSeq(ChunkCalls(p), LAMBDA e : e.text \notin {ResultsHeader, ItemsHeader})

DeliveredItems(p) == SelectSeq(ItemCalls(p), LAMBDA e : e.ok)

\* text is a per-item message of the given food name
IsItemFor(text, food_name) ==
  /\ Len(text) > Len(food_name) + 1
  /\ text[1] = "## <pizza> "
  /\ SubSeq(text, 2, Len(food_name) + 1) = food_name

\* cycle p has extracted food names from an image it took for a menu
Enriching(p) ==
  /\ IsImageMessage(loc[p].data)
  /\ loc[p].food_defined
  /\ loc[p].food_names # <<>>

\* cycle p has left the enrichment loop of lines 292-373 normally
PastEnrichment(p) ==
  \/ loc[p].pc \in {"l382", "l402", "l406"}
  \/ loc[p].pc \in {"except", "done"} /\ loc[p].failed_at \in {"none", "l382", "l406"}

\* no call of cycle p on the delivery sink has raised
SinkWorked(p) == \A i \in 1..Len(sink[p]) : sink[p][i].ok

\* the lookups of lines 141 and 292-300 gave cycle p a credential
HasCompletionCredential(p) == GetOpenAIKey(loc[p].data.variables) # <<>>

HasSearchCredential(p) == GetSerperKey(loc[p].data.variables) # <<>>

(***************************************************************************)
(* Claims                                                                  *)
(***************************************************************************)

\* C1 (SpecHist): in every reachable state the window of every thread holds
\* the last min(10, K) of the K messages appended to it, oldest first; so
\* it never exceeds 10 messages and what is evicted is the oldest.
C1_WindowIsLastTen ==
  \A t \in Threads :
    LET k == Len(appended[t])
        n == Len(hist[t])
    IN  /\ n = IF k > 10 THEN 10 ELSE k
        /\ \A i \in 1..n :
             /\ hist[t][i].role = appended[t][k - n + i].role
             /\ hist[t][i].content = appended[t][k - n + i].content

\* C1 witness: a thread that received 12 appends, of both roles
C1_Witness ==
  \E t \in Threads :
    /\ Len(appended[t]) = 12
    /\ \E i, j \in 1..12 : appended[t][i].role # appended[t][j].role

\* C2: in a completed cycle without image, the chunks delivered are the
\* non-empty deltas of the stream, each once, verbatim and in order, and
\* their concatenation is the text of the complete call and of the stored
\* assistant message.
C2_TextTurnStreamsVerbatim ==
  \A p \in Procs :
    (Completed(p) /\ ~IsImageMessage(loc[p].data)) =>
      LET t == loc[p].data.thread_id IN
      /\ Texts(DeliveredChunks(p)) = SelectSeq(DeltaTexts(p), LAMBDA c : c # <<>>)
      /\ ChunkCalls(p) = DeliveredChunks(p)
      /\ Len(CompleteCalls(p)) = 1
      /\ CompleteCalls(p)[1].text = Concat(Texts(DeliveredChunks(p)))
      /\ Len(AppendedAs(p, t, "assistant")) = 1
      /\ AppendedAs(p, t, "assistant")[1].content = Concat(Texts(DeliveredChunks(p)))

\* C2 witness: a completed text turn with two different non-empty deltas
C2_Witness ==
  \E p \in Procs :
    /\ Completed(p) /\ ~IsImageMessage(loc[p].data)
    /\ Len(DeliveredChunks(p)) = 2
    /\ DeliveredChunks(p)[1].text # DeliveredChunks(p)[2].text

\* C3: in an image cycle whose accumulated text holds the decline phrase,
\* no search call is made, no chunk (header or item) is sent, and what is
\* stored and sent on completion is the raw accumulated text.
C3_DeclinedImageIsNotEnriched ==
  \A p \in Procs :
    (IsImageMessage(loc[p].data) /\ Contains(RawText(p), NotAMenuPhrase)) =>
      LET t == loc[p].data.thread_id IN
      /\ searches[p] = <<>>
      /\ ChunkCalls(p) = <<>>
      /\ \A i \in 1..Len(CompleteCalls(p)) : CompleteCalls(p)[i].text = RawText(p)
      /\ \A i \in 1..Len(AppendedAs(p, t, "assistant")) :
           AppendedAs(p, t, "assistant")[i].content = RawText(p)
      /\ Completed(p) =>
           Len(CompleteCalls(p)) = 1 /\ Len(AppendedAs(p, t, "assistant")) = 1

\* C3 witness: a completed image cycle whose decline phrase came in two deltas
C3_Witness ==
  \E p \in Procs :
    /\ Completed(p) /\ IsImageMessage(loc[p].data)
    /\ Contains(RawText(p), NotAMenuPhrase)
    /\ \A i \in 1..Len(DeltaTexts(p)) : ~Contains(DeltaTexts(p)[i], NotAMenuPhrase)

\* C4: in every image cycle, with or without the search credential, at most
\* 10 search calls are made and at most 10 per-item messages are delivered,
\* the i-th of them for the i-th extracted candidate.
C4_AtMostTenItems ==
  \A p \in Procs :
    IsImageMessage(loc[p].data) =>
      /\ Len(searches[p]) <= 10
      /\ Len(DeliveredItems(p)) <= 10
      /\ \A i \in 1..Len(DeliveredItems(p)) :
           /\ i <= Len(loc[p].food_names)
           /\ IsItemFor(DeliveredItems(p)[i].text, loc[p].food_names[i])

\* C5: in a menu cycle with at least one candidate and no search credential,
\* no search call is made; the chunk calls are the header and then the plain
\* message (name and rule, no photo line) of each candidate in order, one per
\* candidate once the loop has been left.
C5_NoCredentialPlainList ==
  \A p \in Procs :
    (Enriching(p) /\ ~HasSearchCredential(p)) =>
      LET names == loc[p].food_names IN
      /\ searches[p] = <<>>
      /\ Len(ItemCalls(p)) <= Len(names)
      /\ \A i \in 1..Len(ItemCalls(p)) :
           ItemCalls(p)[i].text = <<"## <pizza> ">> \o names[i] \o <<"\n\n---\n\n">>
      /\ PastEnrichment(p) =>
           /\ Len(DeliveredItems(p)) = Len(names)
           /\ DeliveredItems(p) = ItemCalls(p)

\* C5 witness: twelve candidates listed without credential
C5_Witness ==
  \E p \in Procs :
    /\ Enriching(p) /\ ~HasSearchCredential(p)
    /\ PastEnrichment(p)
    /\ Len(loc[p].food_names) = 12
    /\ Len(DeliveredItems(p)) = 12

\* C6: in a menu cycle with the search credential, the searches are made for
\* the first 10 candidates in order, one each, whatever their outcomes; as
\* long as the delivery sink works, each search is followed by exactly one
\* message for its candidate, which for a timeout, a transport failure or a
\* non-2xx response carries that status; and no outcome stops the loop: once
\* it is left, every one of these candidates has been searched.
C6_EveryCandidateSearchedOnce ==
  \A p \in Procs :
    (Enriching(p) /\ HasSearchCredential(p)) =>
      LET names == loc[p].food_names
          k == IF Len(names) > 10 THEN 10 ELSE Len(names)
          head(name) == <<"## <pizza> ">> \o name
      IN  /\ Len(searches[p]) <= k
          /\ \A i \in 1..Len(searches[p]) :
               searches[p][i].query = names[i] \o <<" food photo">>
          /\ PastEnrichment(p) => Len(searches[p]) = k
          /\ SinkWorked(p) =>
               /\ Len(ItemCalls(p)) = Len(searches[p])
               /\ \A i \in 1..Len(ItemCalls(p)) :
                    LET o == searches[p][i].outcome
                        text == ItemCalls(p)[i].text
                    IN  /\ IsItemFor(text, names[i])
                        /\ o.kind = "timeout" =>
                             text = head(names[i])
                                      \o <<"\n\n<camera> *Search timeout*\n\n---\n\n">>
                        /\ o.kind \in {"request_exception", "exception"} =>
                             text = head(names[i])
                                      \o <<"\n\n<camera> *Search error*\n\n---\n\n">>
                        /\ (o.kind = "response" /\ o.status_code \notin 200..299) =>
                             text = head(names[i])
                                      \o <<"\n\n<camera> *Search failed (Status: ">>
                                      \o Str(o.status_code) \o <<")*\n\n---\n\n">>

\* C6 witness: the second of ten searches timed out, the others found a photo,
\* and all ten messages were delivered
C6_Witness ==
  \E p \in Procs :
    /\ Enriching(p) /\ HasSearchCredential(p)
    /\ PastEnrichment(p) /\ SinkWorked(p)
    /\ Len(searches[p]) = 10 /\ Len(DeliveredItems(p)) = 10
    /\ searches[p][2].outcome.kind = "timeout"
    /\ \A i \in (1..10) \ {2} : searches[p][i].outcome = PlainFound

\* C7: a completed cycle has made exactly one complete call and exactly one
\* add_message call of role assistant, for its own thread, with the text of
\* the complete call; when the image was taken for a menu, that text is the
\* summary built at the end, not the raw accumulated text.
C7_OneAssistantMessageWithCanonicalText ==
  \A p \in Procs :
    Completed(p) =>
      LET t == loc[p].data.thread_id IN
      /\ Len(CompleteCalls(p)) = 1
      /\ Len(AppendedAs(p, t, "assistant")) = 1
      /\ \A u \in Threads \ {t} : AppendedBy(p, u) = <<>>
      /\ AppendedAs(p, t, "assistant")[1].content = CompleteCalls(p)[1].text
      /\ (IsImageMessage(loc[p].data) /\ ~Contains(RawText(p), NotAMenuPhrase)) =>
           /\ CompleteCalls(p)[1].text # <<>>
           /\ CompleteCalls(p)[1].text[1] = "# <plate> Food Menu Analysis Results\n\n"
           /\ CompleteCalls(p)[1].text # RawText(p)

\* C7 witness: a completed menu cycle that searched photos
C7_Witness ==
  \E p \in Procs :
    /\ Completed(p) /\ Enriching(p)
    /\ Len(searches[p]) > 1

\* C8: a cycle whose turn has no completion credential makes no completion
\* request, no search call, no complete call and no add_message call, so
\* the store is as it was; it ends having made exactly one error call, with
\* the credential message.
C8_MissingCredentialReportedOnce ==
  \A p \in Procs :
    (loc[p].pc # "idle" /\ ~HasCompletionCredential(p)) =>
      /\ prov[p].requests = <<>>
      /\ searches[p] = <<>>
      /\ CompleteCalls(p) = <<>>
      /\ \A t \in Threads : AppendedBy(p, t) = <<>> /\ hist[t] = <<>>
      /\ loc[p].pc = "done" =>
           /\ Len(ErrorCalls(p)) = 1
           /\ ErrorCalls(p)[1].text = <<"OpenAI API key not found in variables">>

\* C9: once the completion stream has raised, the cycle is in its error
\* handler or over; it makes no complete call and no add_message call of role
\* assistant, extracts nothing and searches nothing, sends no chunk beyond
\* the deltas read before; it ends with one error call whose message is the
\* prefix of line 411 followed by the message of the exception.
C9_StreamErrorDiscardsPartialText ==
  \A p \in Procs :
    prov[p].raised =>
      /\ loc[p].pc \in {"except", "done"}
      /\ CompleteCalls(p) = <<>>
      /\ \A t \in Threads : AppendedAs(p, t, "assistant") = <<>>
      /\ ~loc[p].food_defined
      /\ searches[p] = <<>>
      /\ Texts(ChunkCalls(p)) =
           IF IsImageMessage(loc[p].data)
             THEN <<>>
             ELSE SelectSeq(DeltaTexts(p), LAMBDA c : c # <<>>)
      /\ loc[p].pc = "done" =>
           /\ Len(ErrorCalls(p)) = 1
           /\ ErrorCalls(p)[1].text =
                <<"Error processing message: ">> \o StreamFailure

\* C9 witness: the stream raised after a non-empty delta and the error call
\* was delivered
C9_Witness ==
  \E p \in Procs :
    /\ prov[p].raised /\ loc[p].pc = "done"
    /\ RawText(p) # <<>>
    /\ ErrorCalls(p)[1].ok

\* C10: a cycle that failed at a step after the credential check (prompt
\* assembly, completion request, stream, enrichment delivery, finalization,
\* complete call) has reported through the error call, and has appended its
\* user message but no assistant message.
C10_FailedCycleStoresNoAssistantMessage ==
  \A p \in Procs :
    (loc[p].pc = "done"
       /\ loc[p].failed_at \in {"l154", "l212", "l229", "l246", "search",
                                "basic", "l382", "l406"}) =>
      LET t == loc[p].data.thread_id IN
      /\ Len(ErrorCalls(p)) >= 1
      /\ Len(AppendedAs(p, t, "user")) = 1
      /\ AppendedAs(p, t, "assistant") = <<>>

\* C11: the calls of a cycle on the delivery sink are in the fixed order:
\* after a complete call there is nothing but an error call; a header is the
\* first chunk call, so there is at most one and no per-item message comes
\* before it; a per-item message comes only after a delivered header, and
\* the delivered ones are for the candidates in candidate order; a cycle
\* without image sends no header, only the non-empty deltas in stream order.
C11_SinkCallsInFixedOrder ==
  \A p \in Procs :
    LET log == sink[p]
        IsHeader(e) ==
          /\ e.call = "chunk"
          /\ e.text \in { <<"# <plate> Food Menu Analysis Results\n\n">>,
                          <<"# <plate> Food Menu Items\n\n">> }
    IN  /\ \A i, j \in 1..Len(log) :
             (i < j /\ log[i].call = "complete") => log[j].call = "error"
        /\ \A i, j \in 1..Len(log) :
             (i < j /\ IsHeader(log[j])) => log[i].call # "chunk"
        /\ IsImageMessage(loc[p].data) =>
             /\ \A j \in 1..Len(log) :
                  (log[j].call = "chunk" /\ ~IsHeader(log[j])) =>
                    \E i \in 1..(j - 1) : IsHeader(log[i]) /\ log[i].ok
             /\ Len(DeliveredItems(p)) <= Len(loc[p].food_names)
             /\ \A i \in 1..Len(DeliveredItems(p)) :
                  IsItemFor(DeliveredItems(p)[i].text, loc[p].food_names[i])
        /\ ~IsImageMessage(loc[p].data) =>
             /\ \A i \in 1..Len(log) : ~IsHeader(log[i])
             /\ Texts(ChunkCalls(p)) = SelectSeq(DeltaTexts(p), LAMBDA c : c # <<>>)

\* C11 witness: a completed menu cycle: header, twelve searched or listed
\* candidates among which at least ten messages, then the complete call
C11_Witness ==
  \E p \in Procs :
    /\ Completed(p) /\ Enriching(p)
    /\ Len(loc[p].food_names) = 12
    /\ Len(DeliveredItems(p)) = 10
    /\ sink[p][Len(sink[p])].call = "complete"

\* C12: in an image cycle no chunk call carries a delta of the completion;
\* every chunk call is a header or the message of a candidate, and is made
\* after the stream has been read to its end.
C12_ImageCycleForwardsNoRawDelta ==
  \A p \in Procs :
    IsImageMessage(loc[p].data) =>
      \A k \in 1..Len(ChunkCalls(p)) :
        LET text == ChunkCalls(p)[k].text IN
        /\ \A i \in 1..Len(DeltaTexts(p)) : text # DeltaTexts(p)[i]
        /\ \/ text \in { <<"# <plate> Food Menu Analysis Results\n\n">>,
                         <<"# <plate> Food Menu Items\n\n">> }
           \/ \E i \in 1..Len(loc[p].food_names) :
                IsItemFor(text, loc[p].food_names[i])
        /\ Len(prov[p].chunks) = Len(prov[p].stream)
        /\ ~prov[p].raised
        /\ loc[p].pc \notin {"l212", "l229"}

\* C12 witness: an image cycle that read two non-empty deltas and has
\* delivered a header and a message
C12_Witness ==
  \E p \in Procs :
    /\ IsImageMessage(loc[p].data)
    /\ Len(DeltaTexts(p)) = 2
    /\ \A i \in 1..2 : DeltaTexts(p)[i] # <<>>
    /\ Len(DeliveredChunks(p)) >= 2

\* the line without the one marker it starts with, if any (no marker is the
\* beginning of another)
WithoutOneMarker(line) ==
  LET ms == { m \in { ListMarkers[i] : i \in 1..Len(ListMarkers) } :
                StartsWith(line, m) }
  IN  IF ms = {} THEN line
      ELSE SubSeq(line, Len(CHOOSE m \in ms : TRUE) + 1, Len(line))

\* the text before the earliest of the characters : - ( [
BeforeEarliestCut(text) ==
  LET at == { i \in 1..Len(text) : text[i] \in {":", "-", "(", "["} }
  IN  IF at = {} THEN text
      ELSE SubSeq(text, 1, (CHOOSE i \in at : \A j \in at : i <= j) - 1)

\* the candidates of a text: per line, one marker off, the cut, the trimming
\* and the word filter; the accepted names in line order
ExpectedCandidates(text) ==
  LET lines == SplitOn(Strip(text), "\n")
      names == [i \in 1..Len(lines) |->
                  FilterWords(Strip(BeforeEarliestCut(
                    WithoutOneMarker(Strip(lines[i])))))]
  IN  SelectSeq(names, IsValidFoodName)

\* C13 (SpecExtract): the food names extracted from a completion text are,
\* line by line, what is left when at most one leading marker is taken off
\* and the line is cut at the earliest of : - ( [; for the example of three
\* lines they are Grilled Salmon, Caesar Salad, Tomato Soup, in this order.
C13_ExtractionStripsOneMarkerAndCuts ==
  \A p \in Procs :
    loc[p].food_defined =>
      /\ loc[p].food_names = ExpectedCandidates(RawText(p))
      /\ RawText(p) = ExampleMenuText =>
           loc[p].food_names =
             << <<"G", "r", "i", "l", "l", "e", "d", " ", "S", "a", "l", "m", "o", "n">>,
                <<"C", "a", "e", "s", "a", "r", " ", "S", "a", "l", "a", "d">>,
                <<"T", "o", "m", "a", "t", "o", " ", "S", "o", "u", "p">> >>

\* C13 witness: the names of the example have been extracted
C13_Witness ==
  \E p \in Procs :
    /\ loc[p].food_defined
    /\ RawText(p) = ExampleMenuText
    /\ Len(loc[p].food_names) = 3

\* the texts cycle p has stored as assistant message or sent in a complete
\* call
CanonicalTexts(p) ==
  { CompleteCalls(p)[i].text : i \in 1..Len(CompleteCalls(p)) }
    \cup UNION { { AppendedAs(p, t, "assistant")[i].content :
                      i \in 1..Len(AppendedAs(p, t, "assistant")) } :
                    t \in Threads }

\* the summary of the given names: a title, per name a heading and the
\* placeholder, and a closing line
SummaryOf(names) ==
  <<"# <plate> Food Menu Analysis Results\n\n">>
    \o Concat([i \in 1..Len(names) |->
                 <<"## <pizza> ">> \o names[i]
                   \o <<"\n\n", "<camera> *Photo search completed*\n\n---\n\n">>])
    \o <<"\n*All food items have been analyzed and photos searched via Serper API.*">>

\* C14: in an image cycle taken for a menu, the text stored and sent on
\* completion is the summary of the first min(10, n) candidates in candidate
\* order, each with the placeholder, and holds no URL of a search result;
\* with no candidate it says that no name could be extracted, and no chunk
\* call is made.
C14_CanonicalTextListsFirstTenWithoutUrls ==
  \A p \in Procs :
    (IsImageMessage(loc[p].data) /\ ~Contains(RawText(p), NotAMenuPhrase)) =>
      LET names == loc[p].food_names
          k == IF Len(names) > 10 THEN 10 ELSE Len(names)
      IN  /\ \A text \in CanonicalTexts(p) :
               /\ loc[p].food_defined
               /\ names # <<>> => text = SummaryOf(SubSeq(names, 1, k))
               /\ names = <<>> =>
                    text = <<"# <plate> Food Menu Analysis Results\n\n",
                             "*No food names could be extracted from the menu.*">>
               /\ \A i \in 1..Len(text) :
                    /\ text[i] \notin {"http://img.example/1.jpg",
                                       "http://img.example/1-thumb.jpg",
                                       "http://site.example/1"}
                    /\ \A j \in 1..Len(searches[p]) :
                         searches[p][j].outcome.kind = "response" =>
                           <<text[i]>> # PhotoUrl(searches[p][j].outcome.images)
          /\ (loc[p].food_defined /\ names = <<>>) => ChunkCalls(p) = <<>>

\* C14 witness: a completed cycle with twelve candidates whose searches
\* found photos
C14_Witness ==
  \E p \in Procs :
    /\ Completed(p) /\ Enriching(p)
    /\ Len(loc[p].food_names) = 12
    /\ Len(searches[p]) = 10
    /\ \A j \in 1..10 : searches[p][j].outcome = PlainFound
    /\ CanonicalTexts(p) # {}

\* C15: every message list sent to the completion provider is one system
\* entry, then the window of the thread oldest first, then a user entry that
\* carries the message of the turn: as a composite of that text and the
\* image reference on an image turn, as plain text otherwise.
C15_PromptIsSystemHistoryUserMessage ==
  \A p \in Procs :
    \A r \in 1..Len(prov[p].requests) :
      LET messages == prov[p].requests[r]
          window == loc[p].thread_history
          data == loc[p].data
          last == messages[Len(messages)]
      IN  /\ Len(messages) = Len(window) + 2
          /\ messages[1].role = "system"
          /\ \A i \in 1..Len(window) :
               /\ messages[i + 1].role = window[i].role
               /\ messages[i + 1].content.kind = "text"
               /\ messages[i + 1].content.text = window[i].content
          /\ last.role = "user"
          /\ last.content.text = data.message
          /\ IF IsImageMessage(data)
               THEN /\ last.content.kind = "composite"
                    /\ last.content.image_url = data.file_url
               ELSE /\ last.content.kind = "text"
                    /\ messages[1].content.kind = "text"

\* C16: each search outcome gives the message of exactly one status.  A 2xx
\* response gives the photo link with the imageUrl of the first result, or
\* else its thumbnailUrl, or else its link, and "no photo found" when there
\* is no result or none of the fields; a non-2xx response gives "search
\* failed" with the status code; a timeout gives "search timeout"; any other
\* failure gives "search error".
C16_OutcomeGivesOneStatus ==
  \A p \in Procs :
    (Enriching(p) /\ HasSearchCredential(p) /\ SinkWorked(p)) =>
      /\ Len(ItemCalls(p)) = Len(searches[p])
      /\ \A i \in 1..Len(ItemCalls(p)) :
           LET o == searches[p][i].outcome
               head == <<"## <pizza> ">> \o loc[p].food_names[i]
               first == o.images[1]
               url == IF o.images = <<>> THEN <<>>
                      ELSE IF first.imageUrl # <<>> THEN first.imageUrl
                      ELSE IF first.thumbnailUrl # <<>> THEN first.thumbnailUrl
                      ELSE first.link
               status ==
                 IF o.kind = "timeout"
                   THEN <<"\n\n<camera> *Search timeout*\n\n---\n\n">>
                 ELSE IF o.kind # "response"
                   THEN <<"\n\n<camera> *Search error*\n\n---\n\n">>
                 ELSE IF o.status_code \notin 200..299
                   THEN <<"\n\n<camera> *Search failed (Status: ">>
                          \o Str(o.status_code) \o <<")*\n\n---\n\n">>
                 ELSE IF url # <<>>
                   THEN <<"\n\n<camera> **[View Photo](">> \o url
                          \o <<")**\n\n---\n\n">>
                 ELSE <<"\n\n<camera> *No photo found*\n\n---\n\n">>
           IN  ItemCalls(p)[i].text = head \o status

\* C17 (SpecExtract): the food names are in the order of the lines they come
\* from and a name is there once for each line that gives it; the per-item
\* messages follow the list, repetitions included.
C17_CandidatesKeepLineOrderAndDuplicates ==
  \A p \in Procs :
    loc[p].food_defined =>
      LET names == loc[p].food_names
          lines == SplitOn(Strip(RawText(p)), "\n")
          OfLine(i) == ExpectedCandidates(lines[i])
      IN  /\ names = Concat([i \in 1..Len(lines) |-> OfLine(i)])
          /\ \A i \in 1..Len(names) :
               Cardinality({ j \in 1..Len(names) : names[j] = names[i] })
                 = Cardinality({ j \in 1..Len(lines) : OfLine(j) = <<names[i]>> })
          /\ SinkWorked(p) =>
               /\ \A i \in 1..Len(ItemCalls(p)) :
                    /\ i <= Len(names)
                    /\ IsItemFor(ItemCalls(p)[i].text, names[i])
               /\ PastEnrichment(p) => Len(ItemCalls(p)) = Len(names)

\* C17 witness: the first and the third of three lines gave the same name,
\* and the first and the third message are the same
C17_Witness ==
  \E p \in Procs :
    /\ loc[p].food_defined /\ PastEnrichment(p)
    /\ Len(loc[p].food_names) = 3
    /\ loc[p].food_names[1] = loc[p].food_names[3]
    /\ loc[p].food_names[1] # loc[p].food_names[2]
    /\ Len(DeliveredItems(p)) = 3
    /\ DeliveredItems(p)[1].text = DeliveredItems(p)[3].text

\* C18 (SpecConc): in every step of concurrent cycles, a thread whose window
\* or whose record of appends changes is the thread of the cycle that makes
\* an add_message call in that step; the message of the call is put at the
\* end of the record and of the window (the oldest leaving a window of 10),
\* and no other thread changes.
C18_AppendsStayInThreadAndInCallOrder ==
  [][ \A t \in Threads :
        (hist'[t] # hist[t] \/ appended'[t] # appended[t]) =>
          \E p \in Procs :
            LET l == loc[p]
                called == IF l.pc = "l150"
                            THEN [role |-> "user", content |-> l.data.message]
                            ELSE [role |-> "assistant", content |-> l.full_response]
                longer == Append(hist[t], called)
            IN  /\ l.pc \in {"l150", "l402"}
                /\ loc'[p].pc # l.pc
                /\ l.data.thread_id = t
                /\ appended'[t] =
                     Append(appended[t],
                            [role |-> called.role, content |-> called.content,
                             by |-> p, run |-> l.run])
                /\ hist'[t] = IF Len(longer) <= 10 THEN longer
                              ELSE SubSeq(longer, Len(longer) - 9, Len(longer))
                /\ \A u \in Threads \ {t} :
                     hist'[u] = hist[u] /\ appended'[u] = appended[u]
    ]_vars

\* C18 witness: two cycles of the same thread have appended in turn, and the
\* window holds the four messages in the order of the calls
C18_Witness ==
  \E t \in Threads :
    /\ Len(appended[t]) = 4
    /\ appended[t][1].by # appended[t][2].by
    /\ appended[t][3].by # appended[t][4].by
    /\ appended[t][3].role = "assistant"
    /\ hist[t] = [i \in 1..4 |-> [role |-> appended[t][i].role,
                                  content |-> appended[t][i].content]]

\* C19 (SpecLive): every cycle that has started comes to its end, and at its
\* end it has made the complete call or the error call.
C19_StartedCycleEndsWithCompleteOrError ==
  \A p \in Procs :
    (loc[p].pc # "idle") ~>
      (loc[p].pc = "done" /\ (CompleteCalls(p) # <<>> \/ ErrorCalls(p) # <<>>))

\* C19 witness: a cycle has ended by the complete call after two searches of
\* which one timed out
C19_Witness ==
  \E p \in Procs :
    /\ Completed(p)
    /\ Len(searches[p]) = 2
    /\ \E i \in 1..2 : searches[p][i].outcome.kind = "timeout"
    /\ ErrorCalls(p) = <<>>

\* C20 (Spec): no cycle invokes both the complete call and the error call,
\* and no cycle invokes the error call more than once, whichever call fails.
C20_CompleteAndErrorExclusiveErrorOnce ==
  \A p \in Procs :
    /\ ~(CompleteCalls(p) # <<>> /\ ErrorCalls(p) # <<>>)
    /\ Len(ErrorCalls(p)) <= 1

\* C21 (Spec): when a cycle comes to the test of line 383, the test on the
\* text then held gives what the test of line 246 gave on the accumulated
\* text, although the enrichment may have put another text in its place; so
\* the branch reading food_names is taken exactly when line 253 has bound
\* it, the summary is built exactly in those cycles, and no cycle fails with
\* the NameError of an unbound food_names.
C21_FinalizationBranchMatchesExtractionBranch ==
  \A p \in Procs :
    LET l == loc[p]
        reads == IsImageMessage(l.data) /\ IsMenuResponse(l.full_response)
    IN  /\ l.exc # NameErrorText
        /\ l.pc = "l382" =>
              /\ reads <=> l.food_defined
              /\ IsImageMessage(l.data) =>
                    (IsMenuResponse(l.full_response)
                       <=> IsMenuResponse(RawText(p)))
        /\ l.pc \in {"l402", "l406"} =>
              (l.food_defined <=> l.full_response = CompleteContent(l.food_names))

\* C21 witness: an image cycle stands before the test of line 383 with the
\* accumulated text replaced by the text of line 361 after a search, and
\* food_names bound
C21_Witness ==
  \E p \in Procs :
    /\ loc[p].pc = "l382"
    /\ IsImageMessage(loc[p].data)
    /\ loc[p].food_defined
    /\ loc[p].full_response = SearchDoneText
    /\ loc[p].full_response # RawText(p)
    /\ searches[p] # <<>>

\* text says that photos were searched
StatesPhotoSearch(text) ==
  \E i \in 1..Len(text) :
    text[i] \in {"<camera> *Photo search completed*\n\n---\n\n",
                 "\n*All food items have been analyzed and photos searched via Serper API.*"}

\* C22 (Spec): the text that an image cycle taken for a menu stores and
\* sends on completion says that photos were searched only if the cycle made
\* a search call, and the names it lists are those of the per-item messages
\* delivered, one for one and in the same order.
C22_CanonicalTextMatchesWhatWasDone ==
  \A p \in Procs :
    LET l == loc[p]
        listed == Take(l.food_names, SearchLimit)
        items == DeliveredItems(p)
    IN  (/\ IsImageMessage(l.data)
         /\ l.food_defined
         /\ l.pc \in {"l402", "l406", "done"}
         /\ l.failed_at = "none"
         /\ l.full_response = CompleteContent(l.food_names)) =>
          /\ StatesPhotoSearch(l.full_response) => searches[p] # <<>>
          /\ Len(items) = Len(listed)
          /\ \A i \in 1..Len(listed) : IsItemFor(items[i].text, listed[i])

\* the add_message calls made for the thread of cycle p by other cycles
EarlierMessages(p) ==
  SelectSeq(appended[loc[p].data.thread_id],
            LAMBDA m : ~(m.by = p /\ m.run = loc[p].run))

\* entry is the user entry of the turn of cycle p: its message as plain text,
\* or a composite with its image
IsCurrentTurnEntry(p, entry) ==
  /\ entry.role = "user"
  /\ \/ entry.content.kind = "text" /\ entry.content.text = loc[p].data.message
     \/ /\ entry.content.kind = "composite"
        /\ entry.content.image_url = loc[p].data.file_url

\* C23 (Spec): in the message list a cycle has assembled, the last entry is
\* the entry of the current turn, and the entries between the system entry
\* and the last one are the most recent messages of earlier turns, in their
\* order: the message of the current turn is not among them.
C23_CurrentTurnOnceInPrompt ==
  \A p \in Procs :
    LET l == loc[p]
        n == Len(l.messages)
        part == SubSeq(l.messages, 2, n - 1)
        earlier == EarlierMessages(p)
        k == Len(earlier) - Len(part)
    IN  l.messages # <<>> =>
          /\ n >= 2
          /\ IsCurrentTurnEntry(p, l.messages[n])
          /\ k >= 0
          /\ \A i \in 1..Len(part) :
                part[i] = TextEntry(earlier[k + i].role, earlier[k + i].content)

====
